---- MODULE Spec2Model ----
(***************************************************************************)
(* A model of satori's text-layout helpers (src/src/utils.ts) and of the   *)
(* two-phase render pipeline toSvg (src/unnamed/part_000).                 *)
(*                                                                         *)
(* Four specifications share the module's variables:                       *)
(*   SpecLRU     the cache returned by createLRU(max)                      *)
(*   SpecSeg     the non-breaking-space merge of segment(.., 'word')       *)
(*   SpecHL      splitByBreakOpportunities(.., 'normal') + addHighlights   *)
(*   Spec        one toSvg render with its concurrent asset-loader calls   *)
(* A specification leaves the other components' variables at their idle    *)
(* values.  Strings are sequences of one-character strings; indices into   *)
(* strings are 0-based, as in the source.                                  *)
(***************************************************************************)
EXTENDS Integers, Sequences, FiniteSets, TLC

VARIABLES
    \* createLRU
    max, store, prevStore, lastOp,
    \* segment (word mode)
    segmented, output, segPc,
    \* addHighlights
    originalContent, words, result, hlPc,
    \* toSvg
    pc, yoga, hasLoader, missing, root, calls, status, images, fonts,
    registry, graphemeImages, document, secondPassBegun

lruVars == <<max, store, prevStore, lastOp>>
segVars == <<segmented, output, segPc>>
hlVars == <<originalContent, words, result, hlPc>>
svgVars == <<pc, yoga, hasLoader, missing, root, calls, status, images, fonts,
             registry, graphemeImages, document, secondPassBegun>>
vars == <<lruVars, segVars, hlVars, svgVars>>

----------------------------------------------------------------------------
(* Bounds of the model.                                                    *)

MaxCap == 3
NKeys == 4
MaxTokens == 4
MaxWords == 3
MaxMissing == 3

----------------------------------------------------------------------------
(* Generic helpers on sequences.                                           *)

Last(s) == s[Len(s)]

Range(s) == {s[i] : i \in 1..Len(s)}

RECURSIVE Flatten(_)
Flatten(ss) == IF ss = <<>> THEN <<>> ELSE Head(ss) \o Flatten(Tail(ss))

SeqsUpTo(S, n) == UNION {[1..k -> S] : k \in 0..n}

----------------------------------------------------------------------------
(* createLRU: a JavaScript Map keeps its entries in insertion order; the   *)
(* store is the sequence of its entries, oldest insertion first.           *)

Keys == 1..NKeys
Values == {"v1", "v2"}
Undefined == "undefined"

MapKeys(m) == {m[i].key : i \in 1..Len(m)}

MapHas(m, k) == k \in MapKeys(m)

MapIndex(m, k) == CHOOSE i \in 1..Len(m) : m[i].key = k

MapGet(m, k) == IF MapHas(m, k) THEN m[MapIndex(m, k)].value ELSE Undefined

\* Map.prototype.delete: removes the entry, the others keep their order.
MapDelete(m, k) ==
    IF MapHas(m, k)
    THEN LET i == MapIndex(m, k)
         IN  SubSeq(m, 1, i - 1) \o SubSeq(m, i + 1, Len(m))
    ELSE m

\* Map.prototype.set: an existing key keeps its position and gets the new
\* value; a new key is appended.
MapSet(m, k, v) ==
    IF MapHas(m, k)
    THEN [m EXCEPT ![MapIndex(m, k)].value = v]
    ELSE Append(m, [key |-> k, value |-> v])

\* store.keys().next().value
FirstKey(m) == IF Len(m) = 0 THEN Undefined ELSE m[1].key

\* if (store.size >= max) { delete the first key }
EvictStrict(m, cap) == IF Len(m) > cap THEN MapDelete(m, FirstKey(m)) ELSE m

Evict(m, cap) == IF Len(m) >= cap THEN MapDelete(m, FirstKey(m)) ELSE m

LruSetStore(m, cap, k, v) == MapSet(Evict(m, cap), k, v)

LruGetStore(m, k) ==
    IF ~MapHas(m, k) THEN m ELSE MapSet(MapDelete(m, k), k, MapGet(m, k))

IdleOp == [op |-> "none", key |-> 0, ret |-> Undefined]

LruSet ==
    \E k \in Keys, v \in Values :
        /\ store' = LruSetStore(store, max, k, v)
        /\ prevStore' = store
        /\ lastOp' = [op |-> "set", key |-> k, ret |-> Undefined]
        /\ UNCHANGED max

LruGet ==
    \E k \in Keys :
        /\ store' = LruGetStore(store, k)
        /\ prevStore' = store
        /\ lastOp' = [op |-> "get", key |-> k, ret |-> MapGet(store, k)]
        /\ UNCHANGED max

LruClear ==
    /\ store' = <<>>
    /\ prevStore' = store
    /\ lastOp' = [op |-> "clear", key |-> 0, ret |-> Undefined]
    /\ UNCHANGED max

----------------------------------------------------------------------------
(* segment(content, 'word'): the tokens of the word segmenter, then the    *)
(* merge of every non-breaking-space token with its neighbours.  A token   *)
(* is a string; the segmenter's token sequence is the input.               *)

NBSP == "nbsp"

TokenPool == {<<"a">>, <<"b">>, <<" ">>, <<NBSP>>}

\* const previousWord = i === 0 ? '' : output.pop()
PreviousWord(i, out) == IF i = 0 THEN <<>> ELSE Last(out)

OutputNoPop(i, out) == out

OutputAfterPop(i, out) ==
    IF i = 0 THEN out ELSE SubSeq(out, 1, Len(out) - 1)

\* const nextWord = i === segmented.length - 1 ? '' : segmented[i + 1]
NextWord(seg, i) == IF i = Len(seg) - 1 THEN <<>> ELSE seg[i + 2]

\* The while loop of segment, from index i (0-based) with the output so far.
RECURSIVE SegmentLoop(_, _, _)
SegmentLoop(seg, i, out) ==
    IF ~(i < Len(seg)) THEN out
    ELSE IF seg[i + 1] = <<NBSP>>
         THEN SegmentLoop(seg, i + 2,
                  Append(OutputAfterPop(i, out),
                         PreviousWord(i, out) \o <<NBSP>> \o NextWord(seg, i)))
         ELSE SegmentLoop(seg, i + 1, Append(out, seg[i + 1]))

SegmentWord(seg) == SegmentLoop(seg, 0, <<>>)

SegRun ==
    /\ segPc = "start"
    /\ output' = SegmentWord(segmented)
    /\ segPc' = "done"
    /\ UNCHANGED segmented

----------------------------------------------------------------------------
(* Strings of the highlight tracker.  Characters: the word characters a, b *)
(* (and s, e inside the markers), the space, the apostrophe, and the       *)
(* brackets of the markers.                                                *)

StartTag == <<"[", "s", "]">>
EndTag == <<"[", "e", "]">>

\* \w of the regular expression
IsWordChar(c) == c \in {"a", "b", "s", "e"}

IsSpace(c) == c = " "

SetMin(S) == CHOOSE x \in S : \A y \in S : x <= y

\* sub occurs in s at 0-based index i
OccursAt(s, sub, i) ==
    /\ i >= 0
    /\ i + Len(sub) <= Len(s)
    /\ SubSeq(s, i + 1, i + Len(sub)) = sub

\* String.prototype.indexOf(sub, from)
IndexOf(s, sub, from) ==
    LET f == IF from < 0 THEN 0 ELSE IF from > Len(s) THEN Len(s) ELSE from
        hits == {i \in f..(Len(s) - Len(sub)) : OccursAt(s, sub, i)}
    IN  IF hits = {} THEN -1 ELSE SetMin(hits)

\* String.prototype.substring(a, b) for 0 <= a <= b <= length
Substring(s, a, b) == SubSeq(s, a + 1, b)

RECURSIVE TrimStart(_)
TrimStart(s) ==
    IF s # <<>> /\ IsSpace(Head(s)) THEN TrimStart(Tail(s)) ELSE s

RECURSIVE TrimEnd(_)
TrimEnd(s) ==
    IF s # <<>> /\ IsSpace(Last(s)) THEN TrimEnd(SubSeq(s, 1, Len(s) - 1))
    ELSE s

\* String.prototype.trim
Trim(s) == TrimEnd(TrimStart(s))

\* s.replace(/tag/g, '')
RECURSIVE RemoveAll(_, _)
RemoveAll(s, tag) ==
    IF s = <<>> THEN <<>>
    ELSE IF OccursAt(s, tag, 0)
         THEN RemoveAll(SubSeq(s, Len(tag) + 1, Len(s)), tag)
         ELSE <<Head(s)>> \o RemoveAll(Tail(s), tag)

\* The positions LineBreaker.nextBreak() reports for a text of letters,
\* apostrophes and spaces (UAX #14: a break opportunity after a run of
\* spaces, none inside a word or around an apostrophe, and the end of the
\* text).  None of them is a required break.
BreakPositions(s) ==
    {p \in 1..(Len(s) - 1) : IsSpace(s[p]) /\ ~IsSpace(s[p + 1])}
        \cup (IF Len(s) > 0 THEN {Len(s)} ELSE {})

\* The loop of splitByBreakOpportunities: the slices between breaks.
RECURSIVE SliceAtBreaks(_, _, _)
SliceAtBreaks(s, last, bks) ==
    IF bks = {} THEN <<>>
    ELSE LET bk == SetMin(bks)
         IN  <<Substring(s, last, bk)>> \o SliceAtBreaks(s, bk, bks \ {bk})

\* splitByBreakOpportunities(content, 'normal').words
SplitByBreakOpportunities(content) ==
    LET contentWithoutStartEnd == RemoveAll(RemoveAll(content, StartTag), EndTag)
    IN  SliceAtBreaks(contentWithoutStartEnd, 0,
                      BreakPositions(contentWithoutStartEnd))

\* splitByBreakOpportunities(content, 'normal').requiredBreaks
RequiredBreaks(content) ==
    <<FALSE>> \o [k \in 1..Len(SplitByBreakOpportunities(content)) |-> FALSE]

----------------------------------------------------------------------------
(* addHighlights(originalContent, words, 'normal').                        *)

\* The while (true) loop collecting the [s]...[e] sections from searchStart.
RECURSIVE HighlightedSections(_, _)
HighlightedSections(content, searchStart) ==
    LET startIdx == IndexOf(content, StartTag, searchStart)
        endIdx == IndexOf(content, EndTag, startIdx)
    IN  IF startIdx = -1 THEN <<>>
        ELSE IF endIdx = -1 THEN <<>>
        ELSE <<[startIdx |-> startIdx,
                endIdx |-> endIdx + Len(EndTag),
                text |-> Trim(Substring(content, startIdx + Len(StartTag),
                                        endIdx))]>>
             \o HighlightedSections(content, endIdx + Len(EndTag))

\* The end (exclusive, 1-based start) of the longest run from index b of
\* characters that are word characters (isWord) or are not (~isWord).
RECURSIVE RunEnd(_, _, _)
RunEnd(w, b, isWord) ==
    IF b <= Len(w) /\ (IsWordChar(w[b]) <=> isWord)
    THEN RunEnd(w, b + 1, isWord)
    ELSE b

\* word.match(/(\w+)(\W*)/): the first run of word characters and the run
\* of other characters after it.
WordMatch(word) ==
    LET starts == {i \in 1..Len(word) : IsWordChar(word[i])}
    IN  IF starts = {} THEN [found |-> FALSE, coreWord |-> <<>>,
                             punctuation |-> <<>>]
        ELSE LET b == SetMin(starts)
                 e == RunEnd(word, b, TRUE)
                 q == RunEnd(word, e, FALSE)
             IN  [found |-> TRUE,
                  coreWord |-> SubSeq(word, b, e - 1),
                  punctuation |-> SubSeq(word, e, q - 1)]

\* highlightWords[highlightWords.length - 1].length of an empty array
TypeError == <<"TypeError">>

\* The body of the for loop over the sections for a word found at
\* wordStartIndex inside `section`.
HighlightToken(content, section, word, m, wordStartIndex) ==
    LET highlightStart == section.startIdx + Len(StartTag)
        highlightWords == SplitByBreakOpportunities(section.text)
    IN  IF highlightWords = <<>> THEN TypeError
        ELSE
        LET lastWord == Last(highlightWords)
            highlightWordStart == IndexOf(content, highlightWords[1],
                                          highlightStart)
            highlightWordEnd == IndexOf(content, lastWord, highlightStart)
        IN  IF wordStartIndex = highlightWordStart
            THEN StartTag \o m.coreWord \o m.punctuation
            ELSE IF \/ wordStartIndex + Len(m.coreWord)
                          = highlightWordEnd + Len(lastWord)
                    \/ wordStartIndex + Len(Trim(word))
                          = highlightWordEnd + Len(lastWord)
            THEN m.coreWord \o EndTag \o m.punctuation
            ELSE m.coreWord \o m.punctuation

\* The sections (by index) whose inner range holds wordStartIndex.
SectionsHolding(sections, wordStartIndex) ==
    {n \in 1..Len(sections) :
        /\ wordStartIndex >= sections[n].startIdx + Len(StartTag)
        /\ wordStartIndex < sections[n].endIdx - Len(EndTag)}

\* The for loop over words, from word k with the cursor currentIndex.
RECURSIVE AddHighlightsLoop(_, _, _, _, _, _)
AddHighlightsLoop(content, sections, ws, k, currentIndex, acc) ==
    IF k > Len(ws) THEN acc
    ELSE
    LET word == ws[k]
        m == WordMatch(word)
        wordStartIndex == IndexOf(content, m.coreWord, currentIndex)
        holding == SectionsHolding(sections, wordStartIndex)
    IN  IF ~m.found
        THEN AddHighlightsLoop(content, sections, ws, k + 1, currentIndex,
                               Append(acc, word))
        ELSE IF wordStartIndex = -1
        THEN AddHighlightsLoop(content, sections, ws, k + 1,
                               currentIndex + Len(word), Append(acc, word))
        ELSE AddHighlightsLoop(content, sections, ws, k + 1,
                 wordStartIndex + Len(m.coreWord),
                 Append(acc,
                    IF holding = {} THEN word
                    ELSE HighlightToken(content, sections[SetMin(holding)],
                                        word, m, wordStartIndex)))

AddHighlights(content, ws) ==
    AddHighlightsLoop(content, HighlightedSections(content, 0), ws, 1, 0,
                      <<>>)

\* The TextRuns of the model: up to MaxWords words separated by single
\* spaces, with at most one [s]...[e] pair opening before word i and closing
\* after word j (i = 0: no pair), the inner text optionally padded by spaces.
WordPool == {<<"a">>, <<"b">>, <<"a", "b">>, <<"a", "'", "b">>}

RECURSIVE JoinWords(_, _, _, _, _)
JoinWords(ws, k, i, j, pad) ==
    IF k > Len(ws) THEN <<>>
    ELSE (IF k > 1 THEN <<" ">> ELSE <<>>)
         \o (IF k = i THEN StartTag \o pad ELSE <<>>)
         \o ws[k]
         \o (IF k = j THEN pad \o EndTag ELSE <<>>)
         \o JoinWords(ws, k + 1, i, j, pad)

TextRuns ==
    {JoinWords(ws, 1, 0, 0, <<>>) :
        ws \in SeqsUpTo(WordPool, MaxWords) \ {<<>>}}
    \cup UNION {
        {JoinWords(ws, 1, ij[1], ij[2], pad) :
            ij \in {x \in (1..Len(ws)) \X (1..Len(ws)) : x[1] <= x[2]},
            pad \in {<<>>, <<" ">>}} :
        ws \in SeqsUpTo(WordPool, MaxWords) \ {<<>>}}

HlSplit ==
    /\ hlPc = "start"
    /\ words' = SplitByBreakOpportunities(originalContent)
    /\ hlPc' = "split"
    /\ UNCHANGED <<originalContent, result>>

HlAdd ==
    /\ hlPc = "split"
    /\ result' = AddHighlights(originalContent, words)
    /\ hlPc' = "done"
    /\ UNCHANGED <<originalContent, words>>

----------------------------------------------------------------------------
(* toSvg.  A string of missing text is the sequence of its grapheme        *)
(* clusters; the layout handler's first step yields `missing`, a list of   *)
(* such strings.                                                           *)

Graphemes == {"kan", "ji", "han", "grin", "party"}

\* detectLanguageCode(seg): one grapheme cluster to a code
DetectLanguageCode(g) ==
    IF g \in {"grin", "party"} THEN "emoji"
    ELSE IF g = "han" THEN "ko"
    ELSE "ja"

\* segment(text, 'grapheme'): the grapheme clusters of the text, each a string
SegmentGrapheme(text) == [k \in 1..Len(text) |-> <<text[k]>>]

NoDedupe(segs) == segs

\* Array.from(new Set(segs)): first occurrences, in encounter order
RECURSIVE Dedupe(_)
Dedupe(segs) ==
    IF segs = <<>> THEN <<>>
    ELSE LET init == Dedupe(SubSeq(segs, 1, Len(segs) - 1))
         IN  IF Last(segs) \in Range(init) THEN init
             ELSE Append(init, Last(segs))

\* langaugeCodes after the forEach over the deduplicated graphemes: the
\* entries (code, segments) in insertion order of the codes.
RECURSIVE LanguageCodes(_)
LanguageCodes(segs) ==
    IF segs = <<>> THEN <<>>
    ELSE
    LET before == LanguageCodes(SubSeq(segs, 1, Len(segs) - 1))
        seg == Last(segs)
        code == DetectLanguageCode(seg[1])
        at == {n \in 1..Len(before) : before[n].code = code}
        entries == IF at = {}
                   THEN Append(before, [code |-> code, segments |-> <<>>])
                   ELSE before
        n == CHOOSE x \in 1..Len(entries) : entries[x].code = code
        old == entries[n].segments
    IN  IF code = "emoji"
        THEN [entries EXCEPT ![n].segments = Append(old, seg)]
        ELSE [entries EXCEPT ![n].segments =
                 <<(IF old = <<>> THEN <<>> ELSE old[1]) \o seg>>]

\* Object.entries(langaugeCodes).flatMap(...): one loader call per segment
\* of every entry.
RECURSIVE LoaderCallsOf(_)
LoaderCallsOf(entries) ==
    IF entries = <<>> THEN <<>>
    ELSE [k \in 1..Len(Head(entries).segments) |->
             [code |-> Head(entries).code, text |-> Head(entries).segments[k]]]
         \o LoaderCallsOf(Tail(entries))

LoaderCalls(segmentsMissingFont) ==
    LoaderCallsOf(LanguageCodes(
        Dedupe(SegmentGrapheme(Flatten(segmentsMissingFont)))))

Resolved == {"font", "image", "nothing"}

Uri(i) == [uri |-> i]
Font(i) == [font |-> i]

\* images[segment] = asset; Object.assign(target, source)
Assign(target, source) ==
    [t \in DOMAIN target \cup DOMAIN source |->
        IF t \in DOMAIN source THEN source[t] ELSE target[t]]

AnyFulfilled(st) == \E i \in 1..Len(st) : st[i] \in Resolved

AllSettled(st) == \A i \in 1..Len(st) : st[i] # "pending"

\* Promise.all fulfils when every promise has fulfilled
AllFulfilled(st) == \A i \in 1..Len(st) : st[i] \in Resolved

\* Promise.all rejects as soon as one promise rejects
SomeRejected(st) == \E i \in 1..Len(st) : st[i] = "rejected"

\* Lines 38-83: the Yoga check, the font registry, the root node, the
\* copy of options.graphemeImages and the layout handler.
Start ==
    /\ pc = "start"
    /\ IF ~yoga
       THEN /\ pc' = "failed"
            /\ UNCHANGED root
       ELSE /\ pc' = "first_pass"
            /\ root' = "live"
    /\ UNCHANGED <<yoga, hasLoader, missing, calls, status, images, fonts,
                   registry, graphemeImages, document, secondPassBegun>>

\* Line 85: handler.next() throws.
FirstPassThrows ==
    /\ pc = "first_pass"
    /\ pc' = "failed"
    /\ UNCHANGED <<yoga, hasLoader, missing, root, calls, status, images,
                   fonts, registry, graphemeImages, document,
                   secondPassBegun>>

\* Lines 85-120: the first step yields the missing segments; with a loader
\* and a non-empty list every loader call is started and toSvg awaits them.
FirstPass ==
    /\ pc = "first_pass"
    /\ IF hasLoader /\ Len(missing) > 0
       THEN /\ calls' = LoaderCalls(missing)
            /\ status' = [i \in 1..Len(LoaderCalls(missing)) |-> "pending"]
            /\ pc' = "awaiting"
       ELSE /\ pc' = "second_pass"
            /\ UNCHANGED <<calls, status>>
    /\ UNCHANGED <<yoga, hasLoader, missing, root, images, fonts, registry,
                   graphemeImages, document, secondPassBegun>>

\* Lines 111-117: call i fulfils with an asset and its then-callback runs.
LoaderFulfils ==
    \E i \in 1..Len(calls), asset \in Resolved :
        /\ status[i] = "pending"
        /\ status' = [status EXCEPT ![i] = asset]
        /\ images' = IF asset = "image"
                     THEN Assign(images, [t \in {calls[i].text} |-> Uri(i)])
                     ELSE images
        /\ fonts' = IF asset = "font" THEN Append(fonts, Font(i)) ELSE fonts
        /\ UNCHANGED <<pc, yoga, hasLoader, missing, root, calls, registry,
                       graphemeImages, document, secondPassBegun>>

\* Line 111: call i rejects.
LoaderRejects ==
    \E i \in 1..Len(calls) :
        /\ status[i] = "pending"
        /\ status' = [status EXCEPT ![i] = "rejected"]
        /\ UNCHANGED <<pc, yoga, hasLoader, missing, root, calls, images,
                       fonts, registry, graphemeImages, document,
                       secondPassBegun>>

\* Lines 108, 123-124: the await returns; the font registry and the
\* grapheme-image map are updated.
AwaitReturns ==
    /\ pc = "awaiting"
    /\ AllFulfilled(status)
    /\ registry' = registry \o fonts
    /\ graphemeImages' = Assign(graphemeImages, images)
    /\ pc' = "second_pass"
    /\ UNCHANGED <<yoga, hasLoader, missing, root, calls, status, images,
                   fonts, document, secondPassBegun>>

\* Line 108: the await throws the first rejection.
AwaitThrows ==
    /\ pc = "awaiting"
    /\ SomeRejected(status)
    /\ pc' = "failed"
    /\ UNCHANGED <<yoga, hasLoader, missing, root, calls, status, images,
                   fonts, registry, graphemeImages, document,
                   secondPassBegun>>

\* Lines 128-131: handler.next(), root.calculateLayout, handler.next([0, 0]).
SecondPass ==
    /\ pc = "second_pass"
    /\ secondPassBegun' = TRUE
    /\ pc' = "laid_out"
    /\ UNCHANGED <<yoga, hasLoader, missing, root, calls, status, images,
                   fonts, registry, graphemeImages, document>>

\* Lines 128-131: one of the three layout steps throws.
SecondPassThrows ==
    /\ pc = "second_pass"
    /\ secondPassBegun' = TRUE
    /\ pc' = "failed"
    /\ UNCHANGED <<yoga, hasLoader, missing, root, calls, status, images,
                   fonts, registry, graphemeImages, document>>

\* Lines 133-135: root.freeRecursive() and the document is returned.
Finish ==
    /\ pc = "laid_out"
    /\ root' = "freed"
    /\ document' = "svg"
    /\ pc' = "done"
    /\ UNCHANGED <<yoga, hasLoader, missing, calls, status, images, fonts,
                   registry, graphemeImages, secondPassBegun>>

----------------------------------------------------------------------------
(* createLRU(max) with an empty store; the other components are idle.      *)

LruInit ==
    /\ max \in 1..MaxCap
    /\ store = <<>>
    /\ prevStore = <<>>
    /\ lastOp = IdleOp
    /\ segmented = <<>> /\ output = <<>> /\ segPc = "idle"
    /\ originalContent = <<>> /\ words = <<>> /\ result = <<>>
    /\ hlPc = "idle"
    /\ pc = "idle" /\ yoga = FALSE /\ hasLoader = FALSE /\ missing = <<>>
    /\ root = "none" /\ calls = <<>> /\ status = <<>> /\ images = <<>>
    /\ fonts = <<>> /\ registry = <<>> /\ graphemeImages = <<>>
    /\ document = "none" /\ secondPassBegun = FALSE

LruNext ==
    \/ LruSet /\ UNCHANGED <<segVars, hlVars, svgVars>>
    \/ LruGet /\ UNCHANGED <<segVars, hlVars, svgVars>>
    \/ LruClear /\ UNCHANGED <<segVars, hlVars, svgVars>>

SpecLRU == LruInit /\ [][LruNext]_vars

----------------------------------------------------------------------------
(* segment in word mode on every token sequence of up to MaxTokens tokens. *)

SegInit ==
    /\ segmented \in SeqsUpTo(TokenPool, MaxTokens)
    /\ output = <<>>
    /\ segPc = "start"
    /\ max = 0 /\ store = <<>> /\ prevStore = <<>> /\ lastOp = IdleOp
    /\ originalContent = <<>> /\ words = <<>> /\ result = <<>>
    /\ hlPc = "idle"
    /\ pc = "idle" /\ yoga = FALSE /\ hasLoader = FALSE /\ missing = <<>>
    /\ root = "none" /\ calls = <<>> /\ status = <<>> /\ images = <<>>
    /\ fonts = <<>> /\ registry = <<>> /\ graphemeImages = <<>>
    /\ document = "none" /\ secondPassBegun = FALSE

SegNext == SegRun /\ UNCHANGED <<lruVars, hlVars, svgVars>>

SpecSeg == SegInit /\ [][SegNext]_vars

----------------------------------------------------------------------------
(* Tokenization and highlight tracking of every TextRun of the model.      *)

HlInit ==
    /\ originalContent \in TextRuns
    /\ words = <<>>
    /\ result = <<>>
    /\ hlPc = "start"
    /\ max = 0 /\ store = <<>> /\ prevStore = <<>> /\ lastOp = IdleOp
    /\ segmented = <<>> /\ output = <<>> /\ segPc = "idle"
    /\ pc = "idle" /\ yoga = FALSE /\ hasLoader = FALSE /\ missing = <<>>
    /\ root = "none" /\ calls = <<>> /\ status = <<>> /\ images = <<>>
    /\ fonts = <<>> /\ registry = <<>> /\ graphemeImages = <<>>
    /\ document = "none" /\ secondPassBegun = FALSE

HlNext ==
    \/ HlSplit /\ UNCHANGED <<lruVars, segVars, svgVars>>
    \/ HlAdd /\ UNCHANGED <<lruVars, segVars, svgVars>>

SpecHL == HlInit /\ [][HlNext]_vars

----------------------------------------------------------------------------
(* One toSvg render: any list of up to MaxMissing missing segments, with   *)
(* or without a loader, with or without an installed Yoga.                 *)

SegmentPool == {<<>>, <<"kan", "ji">>} \cup {<<g>> : g \in Graphemes}

Init ==
    /\ pc = "start"
    /\ yoga \in BOOLEAN
    /\ hasLoader \in BOOLEAN
    /\ missing \in SeqsUpTo(SegmentPool, MaxMissing)
    /\ root = "none"
    /\ calls = <<>> /\ status = <<>> /\ images = <<>> /\ fonts = <<>>
    /\ registry = <<>> /\ graphemeImages = <<>>
    /\ document = "none" /\ secondPassBegun = FALSE
    /\ max = 0 /\ store = <<>> /\ prevStore = <<>> /\ lastOp = IdleOp
    /\ segmented = <<>> /\ output = <<>> /\ segPc = "idle"
    /\ originalContent = <<>> /\ words = <<>> /\ result = <<>>
    /\ hlPc = "idle"

Next ==
    \/ Start /\ UNCHANGED <<lruVars, segVars, hlVars>>
    \/ FirstPassThrows /\ UNCHANGED <<lruVars, segVars, hlVars>>
    \/ FirstPass /\ UNCHANGED <<lruVars, segVars, hlVars>>
    \/ LoaderFulfils /\ UNCHANGED <<lruVars, segVars, hlVars>>
    \/ LoaderRejects /\ UNCHANGED <<lruVars, segVars, hlVars>>
    \/ AwaitReturns /\ UNCHANGED <<lruVars, segVars, hlVars>>
    \/ AwaitThrows /\ UNCHANGED <<lruVars, segVars, hlVars>>
    \/ SecondPass /\ UNCHANGED <<lruVars, segVars, hlVars>>
    \/ SecondPassThrows /\ UNCHANGED <<lruVars, segVars, hlVars>>
    \/ Finish /\ UNCHANGED <<lruVars, segVars, hlVars>>

Spec == Init /\ [][Next]_vars

----------------------------------------------------------------------------
(* Properties of toSvg (checked under Spec).                               *)

\* C1: the root node created for a render is released on every exit path:
\* whenever toSvg has ended (returned or thrown) with a root node created,
\* that node has been freed.
C1_RootReleasedOnEveryExit ==
    (pc \in {"done", "failed"} /\ root # "none") => root = "freed"

\* C2: the second layout pass, and the update of the font registry and the
\* grapheme-image map before it, do not begin until every loader call
\* started for the render has completed, whatever the completion order.
C2_SecondPassAfterAllLoaders ==
    (\/ pc \in {"second_pass", "laid_out", "done"}
     \/ secondPassBegun
     \/ registry # <<>>
     \/ graphemeImages # <<>>)
        => \A i \in 1..Len(calls) : status[i] \in Resolved

C2_Witness ==
    /\ pc = "done"
    /\ Len(calls) >= 3
    /\ Len(fonts) >= 2
    /\ fonts[1].font > fonts[2].font

\* C3: if any loader call of the render fails, the render fails as a whole:
\* no document is returned, the second pass never runs, and no result of
\* another loader call reaches the font registry or the image map.
C3_LoaderFailureFailsRender ==
    SomeRejected(status) =>
        /\ pc \in {"awaiting", "failed"}
        /\ document = "none"
        /\ ~secondPassBegun
        /\ registry = <<>>
        /\ graphemeImages = <<>>

C3_Witness ==
    /\ pc = "failed"
    /\ SomeRejected(status)
    /\ \E i \in 1..Len(calls) : status[i] = "image"
    /\ \E i \in 1..Len(calls) : status[i] = "font"

\* The graphemes of the missing text, their first positions, and the bucket
\* entries the grouping rule prescribes.
MissingText == Flatten(missing)

FirstAt(g) == SetMin({k \in 1..Len(MissingText) : MissingText[k] = g})

GraphemesOf(code) ==
    {g \in Range(MissingText) : DetectLanguageCode(g) = code}

InEncounterOrder(G) ==
    CHOOSE t \in [1..Cardinality(G) -> G] :
        /\ Range(t) = G
        /\ \A a, b \in 1..Cardinality(G) :
               a < b => FirstAt(t[a]) < FirstAt(t[b])

BucketEntries ==
    {[code |-> "emoji", text |-> <<g>>] : g \in GraphemesOf("emoji")}
    \cup {[code |-> c, text |-> InEncounterOrder(GraphemesOf(c))] :
            c \in {DetectLanguageCode(g) : g \in Range(MissingText)}
                    \ {"emoji"}}

ImageTexts == {calls[i].text : i \in {n \in 1..Len(calls) : status[n] = "image"}}

\* C4: when asset resolution runs, the loader is invoked exactly once per
\* bucket entry: ("emoji", g) for each distinct emoji grapheme g and, for
\* every other code, (code, text) with text the distinct graphemes of that
\* code in encounter order; a returned image URI is stored under exactly
\* the text submitted in its call.
C4_OneCallPerBucketEntry ==
    /\ (pc = "awaiting" \/ calls # <<>>) =>
           /\ Range(calls) = BucketEntries
           /\ Len(calls) = Cardinality(BucketEntries)
    /\ DOMAIN images = ImageTexts
    /\ \A i \in 1..Len(calls) :
           status[i] = "image" => images[calls[i].text] = Uri(i)
    /\ pc \in {"second_pass", "laid_out", "done"} =>
           /\ DOMAIN graphemeImages = ImageTexts
           /\ \A i \in 1..Len(calls) :
                  status[i] = "image" =>
                      graphemeImages[calls[i].text] = Uri(i)

C4_Witness ==
    /\ pc = "done"
    /\ Len(MissingText) > Cardinality(Range(MissingText))
    /\ \E i \in 1..Len(calls) :
           /\ calls[i].code = "ja"
           /\ Len(calls[i].text) = 2
           /\ status[i] = "image"
    /\ \E i \in 1..Len(calls) : calls[i].code = "emoji"

----------------------------------------------------------------------------
(* Properties of createLRU (checked under SpecLRU).                        *)

\* C5: set evicts only when the store is at capacity and the key is not
\* already present; a set on a present key removes no other key.
C5_SetEvictsOnlyForNewKeyAtCapacity ==
    lastOp.op = "set" =>
        /\ MapKeys(prevStore) \ MapKeys(store) # {} =>
               /\ Len(prevStore) >= max
               /\ ~MapHas(prevStore, lastOp.key)
        /\ MapHas(prevStore, lastOp.key) =>
               MapKeys(store) = MapKeys(prevStore)

\* C6: after any set(k, v), on a new or a present key, and after any get(k)
\* that hits, k is the most-recently-used key: the last one to be evicted.
C6_SetAndGetRefreshRecency ==
    (\/ lastOp.op = "set"
     \/ lastOp.op = "get" /\ MapHas(prevStore, lastOp.key))
        => /\ store # <<>>
           /\ Last(store).key = lastOp.key

\* C7: with max >= 1 the store never holds more than max entries; a get
\* that misses returns undefined and changes neither the entries nor their
\* order; clear leaves the store empty.
C7_SizeBoundedMissAndClear ==
    /\ Len(store) <= max
    /\ (lastOp.op = "get" /\ ~MapHas(prevStore, lastOp.key)) =>
           /\ lastOp.ret = Undefined
           /\ store = prevStore
    /\ lastOp.op = "clear" => store = <<>>

C7_Witness ==
    /\ lastOp.op = "set"
    /\ Len(prevStore) = max
    /\ ~MapHas(prevStore, lastOp.key)
    /\ Len(store) = max
    /\ max >= 2

----------------------------------------------------------------------------
(* Properties of segment in word mode (checked under SpecSeg).             *)

\* C8: the merge post-pass is lossless: the concatenation of the returned
\* tokens equals the concatenation of the segmenter's tokens, for every
\* token sequence, non-breaking spaces at the boundaries and in a row
\* included.
C8_WordModeLossless ==
    segPc = "done" => Flatten(output) = Flatten(segmented)

C8_Witness ==
    /\ segPc = "done"
    /\ Len(segmented) = 4
    /\ segmented[1] = <<NBSP>>
    /\ segmented[2] = <<NBSP>>
    /\ segmented[3] # <<NBSP>>
    /\ segmented[4] = <<NBSP>>
    /\ Len(output) = 2

----------------------------------------------------------------------------
(* Properties of addHighlights (checked under SpecHL).                     *)

HasPair == IndexOf(originalContent, StartTag, 0) # -1

PairStart == IndexOf(originalContent, StartTag, 0)

PairEnd == IndexOf(originalContent, EndTag, PairStart)

InnerText ==
    Substring(originalContent, PairStart + Len(StartTag), PairEnd)

\* Offsets, in the text without markers, of the first and the last
\* highlighted character.
FirstHighlighted == PairStart + (Len(InnerText) - Len(TrimStart(InnerText)))

LastHighlighted ==
    PairEnd - Len(StartTag) - (Len(InnerText) - Len(TrimEnd(InnerText))) - 1

RECURSIVE TokenStart(_, _)
TokenStart(ws, k) ==
    IF k = 1 THEN 0 ELSE TokenStart(ws, k - 1) + Len(ws[k - 1])

\* The token of ws that holds the character at offset p.
TokenAt(ws, p) ==
    CHOOSE k \in 1..Len(ws) :
        TokenStart(ws, k) <= p /\ p < TokenStart(ws, k) + Len(ws[k])

StripMarkers(t) == RemoveAll(RemoveAll(t, StartTag), EndTag)

\* C9: for a TextRun with one [s]...[e] pair whose inner text spans at
\* least two normal-mode tokens, exactly one output token is prefixed with
\* [s], the token where the highlighted text begins, and exactly one
\* carries [e], the token where it ends; also with repeated words.
C9_HighlightRoundTrip ==
    (/\ hlPc = "done"
     /\ HasPair
     /\ Len(SplitByBreakOpportunities(Trim(InnerText))) >= 2)
        => /\ {k \in 1..Len(result) : OccursAt(result[k], StartTag, 0)}
                  = {TokenAt(words, FirstHighlighted)}
           /\ {k \in 1..Len(result) : IndexOf(result[k], EndTag, 0) # -1}
                  = {TokenAt(words, LastHighlighted)}

\* C10: one output token per input token, in order, each the input token
\* with at most one marker inserted: without the markers the output is the
\* input, character for character.
C10_TokensPreserved ==
    hlPc = "done" =>
        /\ Len(result) = Len(words)
        /\ \A k \in 1..Len(result) :
               /\ StripMarkers(result[k]) = words[k]
               /\ Len(result[k]) <= Len(words[k]) + Len(StartTag)

====
